---- MODULE Spec2Model ----
(***************************************************************************)
(* Model of benchmarks/compare_benchmarks.py: the orchestrator main(), the *)
(* two backend runners, the two output parsers and compare_metrics.        *)
(*                                                                         *)
(* Python values: None is the empty tuple and a present value x is <<x>>.  *)
(* A duration is kept as an integer number of units of 10^-MaxFrac second, *)
(* a ratio as an unreduced fraction <<numerator, denominator>>.            *)
(* A child's stdout is a sequence of lines; a line either carries one      *)
(* occurrence of one of the two patterns, with the text its group matched, *)
(* or carries none.                                                        *)
(***************************************************************************)
EXTENDS Integers, Sequences, FiniteSets, TLC

VARIABLES
    pc,             \* position of main(): <<function, step>>
    script_exists,  \* the filesystem: does each backend's script exist
    running,        \* the child processes alive
    attempts,       \* how often each run_*_benchmark was entered
    spawned,        \* how many child processes were started per backend
    returned,       \* has run_*_benchmark returned
    returncode,     \* exit status of each backend's child (None: no child exited)
    result,         \* the runner's local `result` (CompletedProcess), None outside
    extracted,      \* how often each backend's parser was called
    metrics,        \* chromadb_metrics / lynx_metrics of main()
    report,         \* the lines compare_metrics printed
    speedup,        \* compare_metrics' local of line 136
    query_speedup,  \* compare_metrics' local of line 154
    table,          \* the per-query rows printed by lines 173-179
    raised,         \* an exception left compare_metrics
    exit_status     \* the interpreter's exit status (None: still running)

vars == <<pc, script_exists, running, attempts, spawned, returned, returncode,
          result, extracted, metrics, report, speedup, query_speedup, table,
          raised, exit_status>>

\* ---------------------------------------------------------------- bounds

\* Longest captured stdout, in lines.
MaxLines == 2

\* ---------------------------------------------------------- Python values

None == <<>>
Some(x) == <<x>>

Backends == {"chromadb", "lynx"}

\* ------------------------------------------------------------ child output

\* Texts the group ([\d.]+) can match: any non-empty string of digits and dots.
NumTexts ==
    { <<"0", ".", "0">>, <<"1", ".", "5">>, <<"3">>, <<"1", ".", "2", ".", "3">> }

\* The indexes a backend prints after "Query".
QueryIndexes == {1, 2}

Lines ==
    { <<"other">> }
        \cup { <<"Inserted", t>> : t \in NumTexts }
        \cup { <<"Query", i, t>> : i \in QueryIndexes, t \in NumTexts }

Outputs == UNION { [1..n -> Lines] : n \in 0..MaxLines }

\* --------------------------------------------------------------- float()

Digits == {"0", "1", "2", "3", "4", "5", "6", "7", "8", "9"}

DigitVal(c) ==
    CASE c = "0" -> 0 [] c = "1" -> 1 [] c = "2" -> 2 [] c = "3" -> 3
      [] c = "4" -> 4 [] c = "5" -> 5 [] c = "6" -> 6 [] c = "7" -> 7
      [] c = "8" -> 8 [] c = "9" -> 9

Pow10(n) == IF n = 0 THEN 1 ELSE LET p[k \in 0..n] == IF k = 0 THEN 1 ELSE 10 * p[k - 1] IN p[n]

CountDots(t) == Cardinality({i \in 1..Len(t) : t[i] = "."})
CountDigits(t) == Cardinality({i \in 1..Len(t) : t[i] \in Digits})

\* Digits after the decimal point.
FracLen(t) ==
    IF CountDots(t) = 0 THEN 0
    ELSE Len(t) - (CHOOSE i \in 1..Len(t) : t[i] = ".")

MaxFrac ==
    LET ok == {t \in NumTexts : CountDots(t) <= 1}
    IN  IF ok = {} THEN 0
        ELSE CHOOSE m \in {FracLen(t) : t \in ok} : \A t \in ok : FracLen(t) <= m

\* The digits of t read as a decimal integer, the point skipped.
RECURSIVE DigitsValue(_, _)
DigitsValue(t, acc) ==
    IF t = <<>> THEN acc
    ELSE IF Head(t) = "." THEN DigitsValue(Tail(t), acc)
    ELSE DigitsValue(Tail(t), 10 * acc + DigitVal(Head(t)))

\* float(text): None stands for ValueError (more than one point, or no digit).
float(t) ==
    IF CountDots(t) > 1 \/ CountDigits(t) = 0 THEN None
    ELSE Some(DigitsValue(t, 0) * Pow10(MaxFrac - FracLen(t)))

\* ------------------------------------------------------------ the parsers

\* re.search(r'Inserted \d+ vectors in ([\d.]+) seconds', output): group 1 of
\* the first occurrence, None without one.
Search(output) ==
    LET hits == {i \in 1..Len(output) : output[i][1] = "Inserted"}
    IN  IF hits = {} THEN None
        ELSE Some(output[CHOOSE i \in hits : \A j \in hits : i <= j][2])

\* The loop over re.finditer(r'Query \d+: ([\d.]+)s', output): each match's
\* float appended in turn; None when a float() raises ValueError.
RECURSIVE FindIterLoop(_, _)
FindIterLoop(output, query_times) ==
    IF output = <<>> THEN Some(query_times)
    ELSE IF Head(output)[1] = "Query"
         THEN LET v == float(Head(output)[3])
              IN  IF v = None THEN None
                  ELSE FindIterLoop(Tail(output), Append(query_times, v[1]))
         ELSE FindIterLoop(Tail(output), query_times)

\* parse_chromadb_output(output): Some(metrics), or None when it raises.
parse_chromadb_output(output) ==
    LET insert_match == Search(output)
        insert_time == IF insert_match = None THEN None ELSE float(insert_match[1])
        query_times == FindIterLoop(output, <<>>)
    IN  IF (insert_match # None /\ insert_time = None) \/ query_times = None
        THEN None
        ELSE Some([insert_time |-> insert_time, query_times |-> query_times[1]])

\* parse_lynx_output(output): Some(metrics), or None when it raises.
parse_lynx_output(output) ==
    LET insert_match == Search(output)
        query_times == FindIterLoop(output, <<>>)
    IN  IF insert_match # None /\ float(insert_match[1]) = None THEN None
        ELSE IF query_times = None THEN None
        ELSE Some([insert_time |-> IF insert_match = None THEN None
                                   ELSE float(insert_match[1]),
                   query_times |-> query_times[1]])

Parser(b, output) ==
    IF b = "chromadb" THEN parse_chromadb_output(output) ELSE parse_lynx_output(output)

\* ------------------------------------------------------------ the runners

\* Exit statuses of a child that failed (check=True raises CalledProcessError).
FailureCodes == {1, 2}

\* main() giving up on the remaining backend once a backend has failed.
ReturnToAbortOnFailure(b, m) ==
    IF b = "chromadb" /\ m # None THEN <<"lynx", "start">> ELSE <<"main", "compare">>

\* Where main() continues when run_<b>_benchmark has returned m.
ReturnTo(b, m) ==
    IF b = "chromadb" THEN <<"lynx", "start">> ELSE <<"main", "compare">>

\* `return m` of run_<b>_benchmark, assigned by main() to <b>_metrics.
Return(b, m) ==
    /\ metrics' = [metrics EXCEPT ![b] = m]
    /\ returned' = [returned EXCEPT ![b] = TRUE]
    /\ pc' = ReturnTo(b, m)

\* run_<b>_benchmark up to subprocess.run having started the child: a missing
\* script returns None at once; subprocess.run may raise before any child
\* exists (OSError), which `except Exception` turns into None.
Start(b) ==
    /\ pc = <<b, "start">>
    /\ attempts' = [attempts EXCEPT ![b] = @ + 1]
    /\ UNCHANGED <<script_exists, returncode, result, extracted, report, speedup,
                   query_speedup, table, raised, exit_status>>
    /\ \/ /\ ~script_exists[b]
          /\ Return(b, None)
          /\ UNCHANGED <<running, spawned>>
       \/ /\ script_exists[b]
          /\ Return(b, None)
          /\ UNCHANGED <<running, spawned>>
       \/ /\ script_exists[b]
          /\ running' = running \cup {b}
          /\ spawned' = [spawned EXCEPT ![b] = @ + 1]
          /\ pc' = <<b, "wait">>
          /\ UNCHANGED <<metrics, returned>>

\* subprocess.run returns or raises: the child has exited. Status zero leaves
\* the CompletedProcess in `result`; another status raises CalledProcessError,
\* caught, and the runner returns None.
ChildExit(b) ==
    /\ pc = <<b, "wait">>
    /\ running' = running \ {b}
    /\ UNCHANGED <<script_exists, attempts, spawned, extracted, report, speedup,
                   query_speedup, table, raised, exit_status>>
    /\ \/ \E stdout \in Outputs :
             /\ returncode' = [returncode EXCEPT ![b] = Some(0)]
             /\ result' = Some([returncode |-> 0, stdout |-> stdout])
             /\ pc' = <<b, "parse">>
             /\ UNCHANGED <<metrics, returned>>
       \/ \E rc \in FailureCodes :
             /\ returncode' = [returncode EXCEPT ![b] = Some(rc)]
             /\ result' = None
             /\ Return(b, None)

\* `return parse_<b>_output(result.stdout)` inside the try: a ValueError of
\* the parser is caught by `except Exception`, and the runner returns None.
Parse(b) ==
    /\ pc = <<b, "parse">>
    /\ extracted' = [extracted EXCEPT ![b] = @ + 1]
    /\ result' = None
    /\ Return(b, Parser(b, result[1].stdout))
    /\ UNCHANGED <<script_exists, running, attempts, spawned, returncode, report,
                   speedup, query_speedup, table, raised, exit_status>>

run_chromadb_benchmark ==
    Start("chromadb") \/ ChildExit("chromadb") \/ Parse("chromadb")

run_lynx_benchmark ==
    Start("lynx") \/ ChildExit("lynx") \/ Parse("lynx")

\* -------------------------------------------------------- compare_metrics

\* Python truth of a float-or-None (None and 0.0 are false) and of a list.
TruthyNumber(x) == x # None /\ x[1] # 0
TruthyList(xs) == xs # <<>>

\* a / b on floats given as fractions; None stands for ZeroDivisionError.
TrueDiv(a, b) ==
    IF b[1] = 0 THEN None ELSE Some(<<a[1] * b[2], a[2] * b[1]>>)

One == <<1, 1>>
Number(v) == <<v, 1>>

\* ratio > 1 and ratio < 1 for a fraction with a positive denominator.
GreaterThanOne(r) == r[1] > r[2]
LessThanOne(r) == r[1] < r[2]

RECURSIVE sum(_)
sum(xs) == IF xs = <<>> THEN 0 ELSE Head(xs) + sum(Tail(xs))

\* The if / elif / else of lines 141-146 and of lines 159-164: the line
\* printed for ratio r, or the ZeroDivisionError of 1/r.
Verdict(r, faster, slower, similar) ==
    IF GreaterThanOne(r)
    THEN [out |-> << <<faster, r[1], r[2]>> >>, raised |-> FALSE]
    ELSE IF LessThanOne(r)
         THEN LET inverse == TrueDiv(One, r)
              IN  IF inverse = None
                  THEN [out |-> <<>>, raised |-> TRUE]
                  ELSE [out |-> << <<slower, inverse[1][1], inverse[1][2]>> >>,
                        raised |-> FALSE]
         ELSE [out |-> << <<similar>> >>, raised |-> FALSE]

\* Lines 131-146.
InsertionSection(chromadb_metrics, lynx_metrics) ==
    LET header == << <<"Insertion Performance">> >>
    IN  IF TruthyNumber(chromadb_metrics.insert_time)
            /\ TruthyNumber(lynx_metrics.insert_time)
        THEN LET chromadb_time == chromadb_metrics.insert_time[1]
                 lynx_time == lynx_metrics.insert_time[1]
                 ratio == TrueDiv(Number(chromadb_time), Number(lynx_time))
             IN  IF ratio = None
                 THEN [out |-> header, speedup |-> None, raised |-> TRUE]
                 ELSE LET v == Verdict(ratio[1], "Lynx is FASTER",
                                       "ChromaDB is faster", "Similar insertion")
                      IN  [out |-> header
                                     \o << <<"insert times", chromadb_time, lynx_time>> >>
                                     \o v.out,
                           speedup |-> ratio, raised |-> v.raised]
        ELSE [out |-> header, speedup |-> None, raised |-> FALSE]

\* Lines 149-164.
QuerySection(chromadb_metrics, lynx_metrics) ==
    LET header == << <<"Query Performance">> >>
        cq == chromadb_metrics.query_times
        lq == lynx_metrics.query_times
    IN  IF TruthyList(cq) /\ TruthyList(lq)
        THEN LET chromadb_avg == <<sum(cq), Len(cq)>>
                 lynx_avg == <<sum(lq), Len(lq)>>
                 ratio == TrueDiv(chromadb_avg, lynx_avg)
             IN  IF ratio = None
                 THEN [out |-> header, query_speedup |-> None, raised |-> TRUE]
                 ELSE LET v == Verdict(ratio[1], "Lynx queries are FASTER",
                                       "ChromaDB queries are faster", "Similar queries")
                      IN  [out |-> header
                                     \o << <<"query averages", chromadb_avg[1], chromadb_avg[2],
                                             lynx_avg[1], lynx_avg[2]>> >>
                                     \o v.out,
                           query_speedup |-> ratio, raised |-> v.raised]
        ELSE [out |-> header, query_speedup |-> None, raised |-> FALSE]

\* Line 176 dividing the millisecond value of line 174 by the seconds of lynx.
RowSpeedupMixedUnits(chromadb_query_time, lynx_query_time) ==
    IF lynx_query_time = 0 THEN None
    ELSE Some(<<chromadb_query_time * 1000, lynx_query_time>>)

\* The ratio of row i (line 176).
RowSpeedup(chromadb_query_time, lynx_query_time) ==
    TrueDiv(Number(chromadb_query_time), Number(lynx_query_time))

\* Lines 174-179: the row printed for index i, or None for ZeroDivisionError.
\* A row is <<i, chroma ms, lynx ms, ratio numerator, ratio denominator, form>>;
\* form "inverse" prints the ratio as 1/(1/ratio).
Row(cq, lq, i) ==
    LET ratio == RowSpeedup(cq[i], lq[i])
    IN  IF ratio = None THEN None
        ELSE IF GreaterThanOne(ratio[1])
             THEN Some(<<i, cq[i] * 1000, lq[i] * 1000, ratio[1][1], ratio[1][2], "ratio">>)
             ELSE IF TrueDiv(One, ratio[1]) = None THEN None
                  ELSE Some(<<i, cq[i] * 1000, lq[i] * 1000, ratio[1][1], ratio[1][2],
                              "inverse">>)

min(a, b) == IF a <= b THEN a ELSE b

\* The loop `for i in range(min_len)` from index i on, rows being printed so far.
RECURSIVE RowLoop(_, _, _, _, _)
RowLoop(cq, lq, i, min_len, rows) ==
    IF i > min_len THEN [rows |-> rows, raised |-> FALSE]
    ELSE LET row == Row(cq, lq, i)
         IN  IF row = None THEN [rows |-> rows, raised |-> TRUE]
             ELSE RowLoop(cq, lq, i + 1, min_len, Append(rows, row[1]))

\* Lines 167-181.
TableSection(chromadb_metrics, lynx_metrics) ==
    LET header == << <<"Individual Query Times">> >>
        cq == chromadb_metrics.query_times
        lq == lynx_metrics.query_times
        min_len == min(Len(cq), Len(lq))
        loop == RowLoop(cq, lq, 1, min_len, <<>>)
        printed == [k \in 1..Len(loop.rows) |-> <<"row">> \o loop.rows[k]]
    IN  [out |-> header \o printed \o (IF loop.raised THEN <<>> ELSE << <<"footer">> >>),
         table |-> loop.rows, raised |-> loop.raised]

\* compare_metrics(chromadb_metrics, lynx_metrics): what it printed, its locals,
\* and whether an exception left it.
compare_metrics(chromadb_metrics, lynx_metrics) ==
    LET banner == << <<"BENCHMARK COMPARISON RESULTS">> >>
        nothing == [out |-> <<>>, speedup |-> None, query_speedup |-> None,
                    table |-> <<>>, raised |-> FALSE]
    IN  IF chromadb_metrics = None \/ lynx_metrics = None
        THEN [nothing EXCEPT
                !.out = banner \o << <<"Error: Could not collect metrics">> >>]
        ELSE LET c == chromadb_metrics[1]
                 l == lynx_metrics[1]
                 ins == InsertionSection(c, l)
                 qry == QuerySection(c, l)
                 tab == TableSection(c, l)
             IN  IF ins.raised
                 THEN [nothing EXCEPT !.out = banner \o ins.out,
                                      !.speedup = ins.speedup, !.raised = TRUE]
                 ELSE IF qry.raised
                 THEN [nothing EXCEPT !.out = banner \o ins.out \o qry.out,
                                      !.speedup = ins.speedup,
                                      !.query_speedup = qry.query_speedup,
                                      !.raised = TRUE]
                 ELSE [out |-> banner \o ins.out \o qry.out \o tab.out,
                       speedup |-> ins.speedup,
                       query_speedup |-> qry.query_speedup,
                       table |-> tab.table,
                       raised |-> tab.raised]

\* ------------------------------------------------------------------ main

\* Line 203 and the end of the process: main() returns and the interpreter
\* exits with status 0, or the exception of compare_metrics is uncaught and
\* the interpreter exits with status 1.
main_compare ==
    /\ pc = <<"main", "compare">>
    /\ LET r == compare_metrics(metrics["chromadb"], metrics["lynx"])
       IN  /\ report' = r.out
           /\ speedup' = r.speedup
           /\ query_speedup' = r.query_speedup
           /\ table' = r.table
           /\ raised' = r.raised
           /\ exit_status' = Some(IF r.raised THEN 1 ELSE 0)
    /\ pc' = <<"main", "done">>
    /\ UNCHANGED <<script_exists, running, attempts, spawned, returned, returncode,
                   result, extracted, metrics>>

Init ==
    /\ pc = <<"chromadb", "start">>
    /\ script_exists \in [Backends -> BOOLEAN]
    /\ running = {}
    /\ attempts = [b \in Backends |-> 0]
    /\ spawned = [b \in Backends |-> 0]
    /\ returned = [b \in Backends |-> FALSE]
    /\ returncode = [b \in Backends |-> None]
    /\ result = None
    /\ extracted = [b \in Backends |-> 0]
    /\ metrics = [b \in Backends |-> None]
    /\ report = <<>>
    /\ speedup = None
    /\ query_speedup = None
    /\ table = <<>>
    /\ raised = FALSE
    /\ exit_status = None

Next == run_chromadb_benchmark \/ run_lynx_benchmark \/ main_compare

Spec == Init /\ [][Next]_vars

\* ================================================================ claims

Done == pc = <<"main", "done">>
Succeeded(b) == metrics[b] # None
BothSucceeded == \A b \in Backends : Succeeded(b)
Printed(tag) == \E i \in DOMAIN report : report[i][1] = tag
PrintedLine(line) == \E i \in DOMAIN report : report[i] = line
IsOne(r) == r # None /\ r[1][1] = r[1][2]

\* C1: the exit status is zero only if at least one backend ran successfully
\* and a report was rendered; it is non-zero (1) when every backend failed; it
\* is 0 when exactly one backend failed.
C1_ExitStatus ==
    Done =>
        /\ exit_status = Some(0) => (\E b \in Backends : Succeeded(b)) /\ report # <<>>
        /\ (\A b \in Backends : ~Succeeded(b)) => exit_status = Some(1)
        /\ (\E b, c \in Backends : Succeeded(b) /\ ~Succeeded(c)) => exit_status = Some(0)

\* C2: the backends are attempted one at a time in the order ChromaDB, Lynx,
\* each exactly once: no two children are alive together, Lynx is entered and
\* its child started only after the ChromaDB attempt has returned, no attempt
\* is repeated, and whatever the outcome of the ChromaDB attempt, Lynx has been
\* attempted (and has returned) when main() goes on to the comparison.
C2_SequentialOnce ==
    /\ Cardinality(running) <= 1
    /\ \A b \in Backends :
          /\ attempts[b] <= 1
          /\ spawned[b] <= attempts[b]
          /\ returned[b] => attempts[b] = 1 /\ b \notin running
    /\ attempts["lynx"] > 0 \/ "lynx" \in running
          => returned["chromadb"] /\ "chromadb" \notin running
    /\ pc[1] = "main" => \A b \in Backends : attempts[b] = 1 /\ returned[b]

\* C2 witness: the ChromaDB attempt failed after its child ran, and Lynx was
\* still run, once, to a successful end.
C2_Witness ==
    /\ Done
    /\ spawned["chromadb"] = 1 /\ ~Succeeded("chromadb")
    /\ spawned["lynx"] = 1 /\ Succeeded("lynx")

\* C3: an attempt yields a metrics record if and only if its script exists and
\* its child exits with status zero, whatever the child printed; a missing
\* script spawns no child; after a missing script or a non-zero exit there are
\* no metrics and the parser was never called.
C3_MetricsIffExitZero ==
    \A b \in Backends :
        returned[b] =>
            /\ Succeeded(b) <=> (script_exists[b] /\ returncode[b] = Some(0))
            /\ ~script_exists[b] => spawned[b] = 0
            /\ (~script_exists[b] \/ returncode[b] \notin {None, Some(0)})
                  => ~Succeeded(b) /\ extracted[b] = 0

\* C4: when a backend produced no metrics, compare_metrics flags it and
\* computes and prints no insertion ratio, no mean-query ratio and no row; when
\* both produced metrics, the three comparison sections are rendered.
C4_ComparisonOnlyForPairs ==
    Done =>
        IF BothSucceeded
        THEN /\ Printed("Insertion Performance")
             /\ Printed("Query Performance")
             /\ Printed("Individual Query Times")
        ELSE /\ Printed("Error: Could not collect metrics")
             /\ speedup = None /\ query_speedup = None /\ table = <<>>
             /\ ~Printed("Insertion Performance")
             /\ ~Printed("Query Performance")
             /\ ~Printed("Individual Query Times")
             /\ ~Printed("row")

\* C5: when both backends produced metrics and a comparison field is absent
\* (insertion: a duration missing or the candidate's not > 0; mean query: a
\* query sequence empty), the report carries a "not available" marker for it.
C5_NotAvailableMarker ==
    Done /\ BothSucceeded =>
        LET c == metrics["chromadb"][1]
            l == metrics["lynx"][1]
        IN  /\ (c.insert_time = None \/ l.insert_time = None \/ ~(l.insert_time[1] > 0))
                  => PrintedLine(<<"not available", "insertion speedup">>)
            /\ (c.query_times = <<>> \/ l.query_times = <<>>)
                  => PrintedLine(<<"not available", "mean query speedup">>)

\* The self-comparison of C6: both sides hold the same metrics, with an
\* insertion duration and at least one query duration.
SelfComparison ==
    /\ Done /\ BothSucceeded
    /\ metrics["chromadb"] = metrics["lynx"]
    /\ metrics["lynx"][1].insert_time # None
    /\ metrics["lynx"][1].query_times # <<>>

AllRatiosOne ==
    /\ IsOne(speedup)
    /\ IsOne(query_speedup)
    /\ Len(table) = Len(metrics["lynx"][1].query_times)
    /\ \A i \in DOMAIN table : table[i][4] = table[i][5]

\* C6 as claimed: comparing metrics against themselves yields an insertion
\* speedup, a mean-query speedup and per-query ratios of exactly 1, for every
\* metric set with a present insertion duration and a non-empty query sequence.
C6_SelfComparisonAsClaimed == SelfComparison => AllRatiosOne

StrictlyPositive(m) ==
    /\ m.insert_time[1] > 0
    /\ \A i \in DOMAIN m.query_times : m.query_times[i] > 0

\* C6 amended: the same, for every metric set whose insertion duration and
\* query durations are all strictly positive; compare_metrics then ends
\* without an exception.
C6_SelfComparison ==
    SelfComparison /\ StrictlyPositive(metrics["lynx"][1]) => AllRatiosOne /\ ~raised

\* C6 witness: a self-comparison of strictly positive durations that printed
\* a row.
C6_Witness ==
    SelfComparison /\ StrictlyPositive(metrics["lynx"][1]) /\ Len(table) >= 1

\* The phrasing of C7 for one ratio r (None: not computed).
PhrasedByDirection(r, faster, slower, similar) ==
    IF r = None
    THEN ~Printed(faster) /\ ~Printed(slower) /\ ~Printed(similar)
    ELSE LET n == r[1][1]
             d == r[1][2]
         IN  /\ Printed(faster) <=> n > d
             /\ n > d => PrintedLine(<<faster, n, d>>)
             /\ Printed(slower) <=> n < d
             /\ n < d => PrintedLine(<<slower, d, n>>)
             /\ Printed(similar) <=> n = d

\* C7: for insertion and for mean query, the report names Lynx as faster
\* exactly when ratio > 1, with the ratio as factor, ChromaDB exactly when
\* ratio < 1, with 1/ratio as factor, and neither exactly when ratio = 1.
C7_PhrasingFollowsRatio ==
    Done /\ BothSucceeded =>
        /\ PhrasedByDirection(speedup, "Lynx is FASTER", "ChromaDB is faster",
                              "Similar insertion")
        /\ PhrasedByDirection(query_speedup, "Lynx queries are FASTER",
                              "ChromaDB queries are faster", "Similar queries")

\* C8: for every pair of metric sets the parsers can produce, compare_metrics
\* runs to completion: no division by zero, no exception.
C8_NeverCrashes ==
    Done => ~raised /\ exit_status = Some(0)

\* What C9 says the parser returns for `output`.
Extracts(output, m) ==
    LET inserted == SelectSeq(output, LAMBDA line : line[1] = "Inserted")
        queries == SelectSeq(output, LAMBDA line : line[1] = "Query")
    IN  /\ m # None
        /\ m[1].insert_time = IF inserted = <<>> THEN None ELSE float(inserted[1][2])
        /\ Len(m[1].query_times) = Len(queries)
        /\ \A k \in DOMAIN queries : Some(m[1].query_times[k]) = float(queries[k][3])

\* C9: for any captured output each parser returns the number of the first
\* insertion occurrence (absent without one) and the numbers of all query
\* occurrences, in order of appearance; both parsers compute this function.
C9_Extraction ==
    result # None =>
        /\ Extracts(result[1].stdout, parse_chromadb_output(result[1].stdout))
        /\ Extracts(result[1].stdout, parse_lynx_output(result[1].stdout))

\* C10: the per-query table has exactly min(len, len) rows; row i pairs the
\* i-th samples of both sides and its ratio is their quotient.
C10_TableRows ==
    Done /\ BothSucceeded =>
        LET cq == metrics["chromadb"][1].query_times
            lq == metrics["lynx"][1].query_times
            n == IF Len(cq) <= Len(lq) THEN Len(cq) ELSE Len(lq)
        IN  /\ Len(table) = n
            /\ Cardinality({i \in DOMAIN report : report[i][1] = "row"}) = n
            /\ \A i \in DOMAIN table :
                  /\ table[i][1] = i
                  /\ table[i][2] = cq[i] * 1000 /\ table[i][3] = lq[i] * 1000
                  /\ table[i][5] # 0
                  /\ table[i][4] * lq[i] = table[i][5] * cq[i]

====
